---- MODULE Spec2Model ----
(***************************************************************************)
(* gofe: the session binder (Contexter), the connection cache and the      *)
(* action dispatcher (apiHandler) of main.go, modelled as a set of         *)
(* concurrently served requests.                                           *)
(***************************************************************************)
EXTENDS Integers, Sequences, FiniteSets, TLC

\* ------------------------------------------------------------------ bounds
\* number of FileExplorer instances the backend lets BackendConnect create
MaxExplorers == 2
\* number of requests served at the same time
NumWorkers == 2

Workers == 1..NumWorkers
Explorers == 1..MaxExplorers
\* browser sessions (one session store per cookie)
Clients == {"c1", "c2"}
Usernames == {"alice", "bob"}
\* the username/password pairs a login form may carry
Credentials == { <<"alice", "secret">>, <<"bob", "secret">>, <<"bob", "">> }

\* Go's nil for session.Get("uid"), for an error and for a FileExplorer
NoUid == "<nil>"
NoErr == "<nil>"
NilFe == 0

\* ---------------------------------------------------------- main.go values
\* SessionInfo{} (main.go:23-28, zero value at main.go:167)
ZeroSessionInfo == [User |-> "", Password |-> "", FileExplorer |-> NilFe, Uid |-> ""]

NewSessionInfo(username, password, fe, uid) ==
  [User |-> username, Password |-> password, FileExplorer |-> fe, Uid |-> uid]

\* the request lines the router knows, plus the logout path
RequestLines ==
  { <<"GET", "/">>, <<"GET", "/login">>, <<"POST", "/login">>,
    <<"GET", "/logout">>, <<"POST", "/api/_">>, <<"POST", "/api/upload">> }

\* strings.HasPrefix(url, "/api/") || strings.HasPrefix(url, "/bridges/php/handler.php")
IsApiPath(url) ==
  url \in {"/api/_", "/api/upload", "/api/download", "/bridges/php/handler.php"}

\* strings.HasPrefix(c.Req.URL.Path, "/login")
HasPrefixLogin(url) == url \in {"/login"}

\* strings.HasPrefix(c.Req.URL.Path, "/logout")
HasPrefixLogout(url) == url \in {"/logout"}

\* ------------------------------------------------------------- responses
Response(kind, code, success, message, result, to, flash) ==
  [kind |-> kind, code |-> code, success |-> success, message |-> message,
   result |-> result, to |-> to, flash |-> flash]

\* c.JSON(code, models.GenericResp{models.GenericRespBody{success, message}})
GenericResp(code, success, message) ==
  Response("GenericResp", code, success, message, <<>>, "", "")

\* c.JSON(200, models.ListDirResp{ls})
ListDirResp(ls) == Response("ListDirResp", 200, TRUE, "", ls, "", "")

\* c.Redirect(to)
Redirect(to) == Response("Redirect", 302, FALSE, "", <<>>, to, "")

\* ctx.HTML(200, name)
HTML(name) == Response("HTML", 200, FALSE, name, <<>>, "", "")

\* no route matches the request line
NotFound == Response("NotFound", 404, FALSE, "", <<>>, "", "")

\* macaron.Recovery() answers a panicking handler
Panic == Response("Panic", 500, FALSE, "", <<>>, "", "")

\* a slip in the fixed envelope: it reports success
DefaultResponseReportsSuccess == GenericResp(200, TRUE, "Not Supported")

DEFAULT_API_ERROR_RESPONSE == GenericResp(200, FALSE, "Not Supported")

ApiErrorResponse(code, err) == GenericResp(code, FALSE, err)

ApiSuccessResponse(message) == GenericResp(200, TRUE, message)

\* an AuthError that redirects without setting the flash message
AuthErrorWithoutFlash(err) == Response("Redirect", 302, FALSE, "", <<>>, "/login", "")

\* f.Set("ErrorMsg", err.Error()); c.Redirect("/login")
AuthError(err) == Response("Redirect", 302, FALSE, "", <<>>, "/login", err)

\* ------------------------------------------------------------ cache.Cache
CacheHas(c, key) == key \in DOMAIN c

CachePut(c, key, val) ==
  [k \in DOMAIN c \cup {key} |-> IF k = key THEN val ELSE c[k]]

CacheDelete(c, key) == [k \in DOMAIN c \ {key} |-> c[k]]

\* ------------------------------------------------- models.GenericReq bodies
ImplementedActions ==
  {"list", "rename", "move", "copy", "remove", "createFolder", "changePermissions"}

NotImplementedActions == {"savefile", "edit", "compress", "extract"}

\* action strings a client may send; "getContent" and "" are in no branch
ActionNames == ImplementedActions \cup NotImplementedActions \cup {"getContent", ""}

GenericReq(action, recursive) ==
  [Action |-> action, Path |-> "/dir", Item |-> "/dir/a",
   Items |-> <<"/dir/a", "/dir/b">>, NewPath |-> "/new",
   NewItemPath |-> "/dir/c", SingleFilename |-> "single",
   PermsCode |-> "644", Recursive |-> recursive]

GenericReqs ==
  { GenericReq(a, FALSE) : a \in ActionNames } \cup { GenericReq("changePermissions", TRUE) }

NoBody == GenericReq("<none>", FALSE)

\* the bodies sent while the session binder is exercised by several workers
BinderReqs == { GenericReq("list", FALSE), GenericReq("compress", FALSE) }

\* what a capability call returns: an error (or nil) and, for ListDir, entries
SampleEntries ==
  << [Name |-> "a.txt", Rights |-> "-rw-r--r--", Size |-> "5",
      Date |-> "2020-01-02 03:04:05", Type |-> "file"] >>

Outcomes == { [err |-> NoErr, ls |-> SampleEntries], [err |-> "EIO", ls |-> <<>>] }

\* one call on the fe.FileExplorer interface
Call(op, strs, items, flag) == [op |-> op, strs |-> strs, items |-> items, flag |-> flag]

\* a slip in the result mapping: a failed call still answers with status 200
ResultOfAlwaysOk(err) ==
  IF err = NoErr THEN <<ApiSuccessResponse("")>> ELSE <<ApiErrorResponse(200, err)>>

\* main.go:109-113 and its repetitions: the response for a call's error value
ResultOf(err) ==
  IF err = NoErr THEN <<ApiSuccessResponse("")>> ELSE <<ApiErrorResponse(400, err)>>

\* apiHandler: the capability call made and the responses written, given the
\* bound request, the injected SessionInfo and what the call returns
ApiHandler(body, s, out) ==
  LET made(c, r) == IF s.FileExplorer = NilFe
                    THEN [calls |-> <<>>, resp |-> <<Panic>>]
                    ELSE [calls |-> <<c>>, resp |-> r]
  IN
  CASE body.Action = "list" ->
         made(Call("ListDir", <<body.Path>>, <<>>, FALSE),
              IF out.err = NoErr THEN <<ListDirResp(out.ls)>>
                                 ELSE <<ApiErrorResponse(400, out.err)>>)
    [] body.Action = "rename" ->
         made(Call("Rename", <<body.Item, body.NewItemPath>>, <<>>, FALSE), ResultOf(out.err))
    [] body.Action = "move" ->
         made(Call("Move", <<body.NewPath>>, body.Items, FALSE), ResultOf(out.err))
    [] body.Action = "copy" ->
         made(Call("Copy", <<body.NewPath, body.SingleFilename>>, body.Items, FALSE),
              ResultOf(out.err))
    [] body.Action = "remove" ->
         made(Call("Delete", <<>>, body.Items, FALSE), ResultOf(out.err))
    [] body.Action = "savefile" ->
         [calls |-> <<>>, resp |-> <<DEFAULT_API_ERROR_RESPONSE>>]
    [] body.Action = "edit" ->
         [calls |-> <<>>, resp |-> <<DEFAULT_API_ERROR_RESPONSE>>]
    [] body.Action = "createFolder" ->
         made(Call("Mkdir", <<body.NewPath>>, <<>>, FALSE), ResultOf(out.err))
    [] body.Action = "changePermissions" ->
         made(Call("Chmod", <<body.PermsCode>>, body.Items, body.Recursive), ResultOf(out.err))
    [] body.Action = "compress" ->
         [calls |-> <<>>, resp |-> <<DEFAULT_API_ERROR_RESPONSE>>]
    [] body.Action = "extract" ->
         [calls |-> <<>>, resp |-> <<DEFAULT_API_ERROR_RESPONSE>>]
    [] OTHER -> [calls |-> <<>>, resp |-> <<>>]

\* ------------------------------------------------------ fe.FileExplorer
\* states of an explorer instance's backend connection
\*   "unused" not created yet, "open" Init succeeded, "dead" the remote
\*   session died, "closed" released by Close
ConnStates == {"unused", "open", "dead", "closed"}

\* a Close that releases again on every call
CloseReleasesAgain(st, rel) == [st |-> "closed", rel |-> rel + 1]

\* Close(): releases the connection of a connected explorer; a repeated
\* Close finds nothing to release.  Never returns an error.
Close(st, rel) ==
  IF st \in {"open", "dead"} THEN [st |-> "closed", rel |-> rel + 1]
                             ELSE [st |-> st, rel |-> rel]

\* what a capability call on an explorer in connection state st can return
CapabilityOutcomes(st) ==
  IF st = "open" THEN Outcomes ELSE { [err |-> "connection lost", ls |-> <<>>] }

\* ------------------------------------------- LocalFileExplorer: filesystem
\* A path is the sequence of its names; <<>> is "/".  A filesystem maps each
\* existing path to its node.  The process is taken to run privileged: mode
\* bits do not stop it, an immutable (locked) file does.
\* number of items a bulk operation is given at most
MaxItems == 2
\* number of LocalFileExplorer operations in a run
MaxOps == 2

\* fe.RelativePath of the explorer (NewLocalFileExplorer(path))
RelativePath == <<"srv">>

\* the names in use, in the lexical order ioutil.ReadDir and filepath.Walk visit them
NameOrder == <<"a", "b", "c", "d", "missing", "new", "out", "single", "srv">>

\* paths a request may carry, written without the leading "/"
ClientPaths == { <<"a">>, <<"b">>, <<"d">>, <<"missing">> }

DestPaths == { <<"new">>, <<"d">> }

FileNames == { "single", "a" }

Node(kind, mode, size, data, locked) ==
  [kind |-> kind, mode |-> mode, size |-> size, data |-> data, locked |-> locked]

IsPrefix(p, q) == Len(p) <= Len(q) /\ SubSeq(q, 1, Len(p)) = p

Parent(p) == SubSeq(p, 1, Len(p) - 1)

Exists(f, p) == p \in DOMAIN f

IsDir(f, p) == Exists(f, p) /\ f[p].kind = "dir"

Subtree(f, p) == { q \in DOMAIN f : IsPrefix(p, q) }

\* filepath.Clean of an absolute path: ".", "" dropped, ".." pops a name
RECURSIVE CleanFrom(_, _)
CleanFrom(acc, rest) ==
  IF rest = <<>> THEN acc
  ELSE LET n == Head(rest)
       IN IF n \in {".", ""} THEN CleanFrom(acc, Tail(rest))
          ELSE IF n = ".."
               THEN CleanFrom(IF acc = <<>> THEN acc ELSE Parent(acc), Tail(rest))
               ELSE CleanFrom(Append(acc, n), Tail(rest))

Clean(p) == CleanFrom(<<>>, p)

\* filepath.Join(fe.RelativePath, path)
Join(root, path) == Clean(root \o path)

\* filepath.Join(fe.RelativePath, a, b)
Join3(root, a, b) == Clean(root \o a \o b)

FsResult(f, err) == [fs |-> f, err |-> err]

\* os.Mkdir(p, mode)
OsMkdir(f, p, mode) ==
  IF Exists(f, p) THEN FsResult(f, "file exists")
  ELSE IF ~IsDir(f, Parent(p)) THEN FsResult(f, "no such file or directory")
  ELSE FsResult([q \in DOMAIN f \cup {p} |->
                   IF q = p THEN Node("dir", mode % 512, 0, "", FALSE) ELSE f[q]],
                NoErr)

\* os.Rename(old, new): new is replaced; the subtree of old moves with it
OsRename(f, old, new) ==
  IF ~Exists(f, old) \/ old = <<>> THEN FsResult(f, "no such file or directory")
  ELSE IF ~IsDir(f, Parent(new)) \/ new = <<>> THEN FsResult(f, "no such file or directory")
  ELSE IF old = new THEN FsResult(f, NoErr)
  ELSE IF f[old].locked \/ (Exists(f, new) /\ f[new].locked)
       THEN FsResult(f, "operation not permitted")
  ELSE IF IsPrefix(old, new) THEN FsResult(f, "invalid argument")
  ELSE IF Exists(f, new) /\ f[old].kind = "dir" /\ f[new].kind # "dir"
       THEN FsResult(f, "not a directory")
  ELSE IF Exists(f, new) /\ f[old].kind # "dir" /\ f[new].kind = "dir"
       THEN FsResult(f, "file exists")
  ELSE IF Exists(f, new) /\ Subtree(f, new) # {new}
       THEN FsResult(f, "directory not empty")
  ELSE LET moved == Subtree(f, old)
           target(q) == new \o SubSeq(q, Len(old) + 1, Len(q))
           kept == DOMAIN f \ (moved \cup {new})
           dom == kept \cup { target(q) : q \in moved }
       IN FsResult([q \in dom |->
                      IF q \in kept THEN f[q]
                      ELSE f[old \o SubSeq(q, Len(new) + 1, Len(q))]],
                   NoErr)

\* os.RemoveAll(p): nil when p does not exist; removes what it can
OsRemoveAll(f, p) ==
  IF ~Exists(f, p) THEN FsResult(f, NoErr)
  ELSE IF p = <<>> THEN FsResult(f, "operation not permitted")
  ELSE LET lockedIn == { q \in Subtree(f, p) : f[q].locked }
           kept == { q \in Subtree(f, p) : \E l \in lockedIn : IsPrefix(q, l) }
           dom == DOMAIN f \ (Subtree(f, p) \ kept)
       IN FsResult([q \in dom |-> f[q]],
                   IF lockedIn = {} THEN NoErr ELSE "operation not permitted")

\* os.Chmod(p, os.FileMode(codeInt)): the permission bits of the mode are set
OsChmod(f, p, codeInt) ==
  IF ~Exists(f, p) THEN FsResult(f, "no such file or directory")
  ELSE IF f[p].locked THEN FsResult(f, "operation not permitted")
  ELSE FsResult([f EXCEPT ![p].mode = codeInt % 512], NoErr)

\* os.Create(p): create or truncate a file
OsCreate(f, p) ==
  IF ~IsDir(f, Parent(p)) \/ p = <<>> THEN FsResult(f, "no such file or directory")
  ELSE IF IsDir(f, p) THEN FsResult(f, "is a directory")
  ELSE IF Exists(f, p) /\ f[p].locked THEN FsResult(f, "operation not permitted")
  ELSE FsResult([q \in DOMAIN f \cup {p} |->
                   IF q # p THEN f[q]
                   ELSE Node("file", IF Exists(f, p) THEN f[p].mode ELSE 420, 0, "", FALSE)],
                NoErr)

\* io.Copy into the file created at p
WriteFile(f, p, size, data) == [f EXCEPT ![p].size = size, ![p].data = data]

\* CopyFile(source, dest): os.Open, os.Create, io.Copy; the Stat/Chmod that
\* follows works on a shadowed err and changes nothing
CopyFile(f, source, dest) ==
  IF ~Exists(f, source) THEN FsResult(f, "no such file or directory")
  ELSE LET c == OsCreate(f, dest)
       IN IF c.err # NoErr THEN c
          ELSE IF f[source].kind = "dir" THEN FsResult(c.fs, "is a directory")
          ELSE IF source = dest THEN FsResult(c.fs, NoErr)
          ELSE FsResult(WriteFile(c.fs, dest, f[source].size, f[source].data), NoErr)

\* ------------------------------------------ LocalFileExplorer: operations
\* an operation's result: the filesystem after it, the error returned, the
\* error of each item's call, and the paths handed to the os calls, in order
OpResult(f, err, errs, touched) ==
  [fs |-> f, err |-> err, errs |-> errs, touched |-> touched]

\* a loop that gives up at the first failing item
StopAtFirstError(err) == err = NoErr

\* the bulk loops have no break and no return in their body: the next item
\* is taken whatever the call for this one returned
ContinueAfter(err) == TRUE

\* r extended by one item's call: err is overwritten by the call's error
Accumulate(r, x, paths) ==
  OpResult(x.fs, x.err, Append(r.errs, x.err), r.touched \o paths)

Mkdir(f, path) ==
  LET p == Join(RelativePath, path)
      x == OsMkdir(f, p, 448)
  IN OpResult(x.fs, x.err, <<x.err>>, <<p>>)

\* strconv.Itoa for a size
DigitChars == <<"0", "1", "2", "3", "4", "5", "6", "7", "8", "9">>

RECURSIVE Itoa(_)
Itoa(n) ==
  IF n < 10 THEN <<DigitChars[n + 1]>>
  ELSE Append(Itoa(n \div 10), DigitChars[(n % 10) + 1])

\* the children of directory p, by name in lexical order
Children(f, p) ==
  LET names == { q[Len(q)] : q \in { c \in DOMAIN f : Len(c) = Len(p) + 1 /\ IsPrefix(p, c) } }
      idx == { i \in 1..Len(NameOrder) : NameOrder[i] \in names }
      RECURSIVE Pick(_, _)
      Pick(i, acc) == IF i > Len(NameOrder) THEN acc
                      ELSE Pick(i + 1, IF i \in idx THEN Append(acc, Append(p, NameOrder[i]))
                                                    ELSE acc)
  IN Pick(1, <<>>)

RECURSIVE EntriesOf(_, _)
EntriesOf(f, ps) ==
  IF ps = <<>> THEN <<>>
  ELSE LET q == Head(ps)
       IN <<[Name |-> q[Len(q)], Size |-> Itoa(f[q].size),
             Type |-> IF f[q].kind = "dir" THEN "dir" ELSE "file"]>>
          \o EntriesOf(f, Tail(ps))

\* ListDir: ioutil.ReadDir and one entry per file
ListDir(f, path) ==
  LET p == Join(RelativePath, path)
  IN IF ~Exists(f, p)
     THEN [res |-> OpResult(f, "no such file or directory", <<"no such file or directory">>, <<p>>),
           ls |-> <<>>]
     ELSE IF ~IsDir(f, p)
     THEN [res |-> OpResult(f, "not a directory", <<"not a directory">>, <<p>>), ls |-> <<>>]
     ELSE [res |-> OpResult(f, NoErr, <<NoErr>>, <<p>>), ls |-> EntriesOf(f, Children(f, p))]

Rename(f, path, newPath) ==
  LET old == Join(RelativePath, path)
      new == Join(RelativePath, newPath)
      x == OsRename(f, old, new)
  IN OpResult(x.fs, x.err, <<x.err>>, <<old, new>>)

RECURSIVE MoveItems(_, _, _)
MoveItems(r, items, newPath) ==
  IF items = <<>> THEN r
  ELSE LET x == Rename(r.fs, Head(items), newPath)
           n == Accumulate(r, x, x.touched)
       IN IF ContinueAfter(x.err) THEN MoveItems(n, Tail(items), newPath) ELSE n

\* Move: for each target, err = fe.Rename(target, newPath)
Move(f, items, newPath) == MoveItems(OpResult(f, NoErr, <<>>, <<>>), items, newPath)

RECURSIVE CopyItems(_, _, _, _)
CopyItems(r, items, newPath, singleFilename) ==
  IF items = <<>> THEN r
  ELSE LET src == Join(RelativePath, Head(items))
           dst == Join3(RelativePath, newPath, <<singleFilename>>)
           x == CopyFile(r.fs, src, dst)
           n == Accumulate(r, x, <<src, dst>>)
       IN IF ContinueAfter(x.err) THEN CopyItems(n, Tail(items), newPath, singleFilename)
                                  ELSE n

Copy(f, items, newPath, singleFilename) ==
  CopyItems(OpResult(f, NoErr, <<>>, <<>>), items, newPath, singleFilename)

RECURSIVE DeleteItems(_, _)
DeleteItems(r, items) ==
  IF items = <<>> THEN r
  ELSE LET p == Clean(Head(items))
           x == OsRemoveAll(r.fs, p)
           n == Accumulate(r, x, <<p>>)
       IN IF ContinueAfter(x.err) THEN DeleteItems(n, Tail(items)) ELSE n

\* Delete: for each target, err = os.RemoveAll(target), the target as given
Delete(f, items) == DeleteItems(OpResult(f, NoErr, <<>>, <<>>), items)

\* strconv.Atoi on the characters of code: an optional sign, then digits only
DigitValue(ch) == CHOOSE d \in 0..9 : DigitChars[d + 1] = ch

IsDigit(ch) == \E d \in 0..9 : DigitChars[d + 1] = ch

RECURSIVE DigitsValue(_, _)
DigitsValue(acc, chars) ==
  IF chars = <<>> THEN acc
  ELSE DigitsValue(acc * 10 + DigitValue(Head(chars)), Tail(chars))

\* an Atoi whose error the caller drops: the value is 0 and no error is seen
AtoiErrorDropped(code) ==
  LET signed == code # <<>> /\ Head(code) \in {"+", "-"}
      digits == IF signed THEN Tail(code) ELSE code
      ok == digits # <<>> /\ \A i \in 1..Len(digits) : IsDigit(digits[i])
  IN IF ~ok THEN [val |-> 0, err |-> NoErr]
     ELSE [val |-> IF signed /\ Head(code) = "-" THEN 0 - DigitsValue(0, digits)
                                                 ELSE DigitsValue(0, digits),
           err |-> NoErr]

Atoi(code) ==
  LET signed == code # <<>> /\ Head(code) \in {"+", "-"}
      digits == IF signed THEN Tail(code) ELSE code
      ok == digits # <<>> /\ \A i \in 1..Len(digits) : IsDigit(digits[i])
  IN IF ~ok THEN [val |-> 0, err |-> "strconv.Atoi: invalid syntax"]
     ELSE [val |-> IF signed /\ Head(code) = "-" THEN 0 - DigitsValue(0, digits)
                                                 ELSE DigitsValue(0, digits),
           err |-> NoErr]

\* the order in which filepath.Walk visits the tree below p: p, then each
\* child's tree, children by name
RECURSIVE WalkOrder(_, _)
RECURSIVE WalkAll(_, _)
WalkOrder(f, p) == <<p>> \o WalkAll(f, Children(f, p))

WalkAll(f, ps) == IF ps = <<>> THEN <<>> ELSE WalkOrder(f, Head(ps)) \o WalkAll(f, Tail(ps))

\* the walk function of Chmod applied along the visit order: the walk ends at
\* the first os.Chmod that fails
RECURSIVE ChmodVisit(_, _, _)
ChmodVisit(r, ps, codeInt) ==
  IF ps = <<>> THEN r
  ELSE LET x == OsChmod(r.fs, Head(ps), codeInt)
           n == OpResult(x.fs, x.err, r.errs, Append(r.touched, Head(ps)))
       IN IF x.err # NoErr THEN n ELSE ChmodVisit(n, Tail(ps), codeInt)

\* filepath.Walk(root, fn): what it returns and what it did
Walk(f, p, codeInt) ==
  IF ~Exists(f, p) THEN OpResult(f, "no such file or directory", <<>>, <<p>>)
  ELSE ChmodVisit(OpResult(f, NoErr, <<>>, <<>>), WalkOrder(f, p), codeInt)

\* the recursive branch: the value of filepath.Walk is not assigned, so err
\* stays what Atoi returned
RECURSIVE ChmodWalkItems(_, _, _)
ChmodWalkItems(r, items, codeInt) ==
  IF items = <<>> THEN r
  ELSE LET x == Walk(r.fs, Join(RelativePath, Head(items)), codeInt)
           n == OpResult(x.fs, r.err, Append(r.errs, x.err), r.touched \o x.touched)
       IN ChmodWalkItems(n, Tail(items), codeInt)

RECURSIVE ChmodItems(_, _, _)
ChmodItems(r, items, codeInt) ==
  IF items = <<>> THEN r
  ELSE LET p == Join(RelativePath, Head(items))
           x == OsChmod(r.fs, p, codeInt)
           n == Accumulate(r, x, <<p>>)
       IN IF ContinueAfter(x.err) THEN ChmodItems(n, Tail(items), codeInt) ELSE n

Chmod(f, items, code, recursive) ==
  LET a == Atoi(code)
      start == OpResult(f, a.err, <<>>, <<>>)
  IN IF a.err # NoErr THEN start
     ELSE IF recursive THEN ChmodWalkItems(start, items, a.val)
                       ELSE ChmodItems(start, items, a.val)

\* UploadFile: os.Create(Join(RelativePath, destination, part.FileName())), io.Copy
UploadFile(f, destination, fileName, size, data) ==
  LET p == Join3(RelativePath, destination, <<fileName>>)
      c == OsCreate(f, p)
  IN IF c.err # NoErr THEN OpResult(c.fs, c.err, <<c.err>>, <<p>>)
     ELSE OpResult(WriteFile(c.fs, p, size, data), NoErr, <<NoErr>>, <<p>>)

\* a size guard that also turns away a file of exactly the limit
TooBigFromLimit(size) == size >= 1024 * 1024

\* fi.Size() > 1024*1024
TooBig(size) == size > 1024 * 1024

\* GetContent up to the decoding of the bytes: os.Stat, the size guard, os.Open
GetContent(f, item) ==
  LET p == Join(RelativePath, item)
  IN IF ~Exists(f, p)
     THEN OpResult(f, "no such file or directory", <<"no such file or directory">>, <<p>>)
     ELSE IF TooBig(f[p].size)
     THEN OpResult(f, "file too big, not support getContent",
                   <<"file too big, not support getContent">>, <<p>>)
     ELSE OpResult(f, NoErr, <<NoErr>>, <<p>>)

\* Edit: os.Create(Join(RelativePath, item)), io.Copy of the content
Edit(f, item, size, data) ==
  LET p == Join(RelativePath, item)
      c == OsCreate(f, p)
  IN IF c.err # NoErr THEN OpResult(c.fs, c.err, <<c.err>>, <<p>>)
     ELSE OpResult(WriteFile(c.fs, p, size, data), NoErr, <<NoErr>>, <<p>>)

\* --------------------------------------- LocalFileExplorer: initial states
\* sizes a file may have, around the limit of GetContent
Sizes == { 5, 1024 * 1024, 1024 * 1024 + 1 }

\* the file that is immutable, if any (<<>>: none)
Lockable == { <<>>, <<"srv", "a">>, <<"srv", "d", "c">>, <<"a">> }

\* /srv is the explorer's root; /a, /b and /out lie outside it
InitialFs(locked, size) ==
  LET n(p, kind, sz, data) == Node(kind, IF kind = "dir" THEN 493 ELSE 420, sz, data, p = locked)
  IN (<<>> :> Node("dir", 493, 0, "", FALSE))
     @@ (<<"srv">> :> n(<<"srv">>, "dir", 0, ""))
     @@ (<<"srv", "a">> :> n(<<"srv", "a">>, "file", size, "A"))
     @@ (<<"srv", "b">> :> n(<<"srv", "b">>, "file", 5, "B"))
     @@ (<<"srv", "d">> :> n(<<"srv", "d">>, "dir", 0, ""))
     @@ (<<"srv", "d", "c">> :> n(<<"srv", "d", "c">>, "file", 5, "C"))
     @@ (<<"a">> :> n(<<"a">>, "file", 5, "outside"))
     @@ (<<"b">> :> n(<<"b">>, "file", 5, "outside"))
     @@ (<<"out">> :> n(<<"out">>, "dir", 0, ""))

\* the item sequences a bulk operation may be given
ItemLists ==
  UNION { [1..n -> ClientPaths] : n \in 0..MaxItems }

\* permsCode values, character by character
PermsCodes == { <<"7", "0", "0">>, <<"6", "4", "4">>, <<"7", "x">>, <<>> }

\* no LocalFileExplorer operation has run
NoOp ==
  [op |-> "none", items |-> <<>>, path |-> <<>>, dest |-> <<>>, name |-> "",
   code |-> <<>>, recursive |-> FALSE,
   err |-> NoErr, errs |-> <<>>, touched |-> <<>>, before |-> << >>]

\* ----------------------------------------------------------------- state
VARIABLES
  cache,       \* cache.Cache: uid -> SessionInfo
  sessUid,     \* session.Store of each browser session: its "uid" value
  conn,        \* connection state of each explorer instance
  feUser,      \* username each explorer instance was created with
  released,    \* how many times each instance's connection was released
  closeCalls,  \* how many times Close() was called on each instance
  req,         \* the request each worker is serving, and where it is
  fs,          \* the filesystem a LocalFileExplorer works on
  last,        \* the last LocalFileExplorer operation: its inputs and results
  nops         \* how many LocalFileExplorer operations have run

vars == <<cache, sessUid, conn, feUser, released, closeCalls, req, fs, last, nops>>

\* the state of the session binder and of the explorers it connects
binderVars == <<cache, sessUid, conn, feUser, released, closeCalls, req>>

IdleReq ==
  [pc |-> "idle", client |-> "c1", method |-> "GET", path |-> "/", uid |-> NoUid,
   sessionInfo |-> ZeroSessionInfo, isSigned |-> FALSE, mapped |-> ZeroSessionInfo,
   body |-> NoBody, out |-> [err |-> NoErr, ls |-> <<>>],
   calls |-> <<>>, resp |-> <<>>]

\* no session, no explorer, every worker idle
InitBinder ==
  /\ cache = << >>
  /\ sessUid = [c \in Clients |-> NoUid]
  /\ conn = [e \in Explorers |-> "unused"]
  /\ feUser = [e \in Explorers |-> ""]
  /\ released = [e \in Explorers |-> 0]
  /\ closeCalls = [e \in Explorers |-> 0]
  /\ req = [w \in Workers |-> IdleReq]

Init ==
  /\ InitBinder
  /\ fs = InitialFs(<<>>, 5)
  /\ last = NoOp
  /\ nops = 0

\* ------------------------------------------------------------- Contexter
\* the handler chain stops after Contexter once a response is written
AfterContexter(rec) ==
  [rec EXCEPT !.pc = IF Len(rec.resp) > 0 THEN "done" ELSE "handler"]

\* main.go:200-229, up to the first call that touches shared state
Branch(rec) ==
  IF rec.isSigned = FALSE
  THEN IF HasPrefixLogin(rec.path)
       THEN IF rec.method = "POST" THEN [rec EXCEPT !.pc = "loginConnect"]
                                   ELSE AfterContexter(rec)
       ELSE AfterContexter([rec EXCEPT !.resp = Append(@, Redirect("/login"))])
  ELSE IF HasPrefixLogout(rec.path) THEN [rec EXCEPT !.pc = "logoutClose"]
                                    ELSE AfterContexter(rec)

\* main.go:166-171: a request arrives and reads session.Get("uid")
OnStart(rec, client, line, uid) ==
  LET r == [rec EXCEPT !.client = client, !.method = line[1], !.path = line[2],
                       !.uid = uid, !.isSigned = FALSE,
                       !.sessionInfo = ZeroSessionInfo]
  IN IF uid = NoUid THEN Branch(r) ELSE [r EXCEPT !.pc = "cacheGet"]

\* main.go:173-184: cache.Get(uid) and the identity check
OnCacheGet(c, rec) ==
  IF ~CacheHas(c, rec.uid)
  THEN Branch([rec EXCEPT !.isSigned = FALSE])
  ELSE LET info == c[rec.uid]
           r == [rec EXCEPT !.sessionInfo = info]
       IN IF info.User = "" \/ info.Password = ""
          THEN Branch([r EXCEPT !.isSigned = FALSE])
          ELSE LET signed == [r EXCEPT !.isSigned = TRUE, !.mapped = info]
               IN IF info.FileExplorer = NilFe
                  THEN [signed EXCEPT !.pc = "lazyConnect"]
                  ELSE Branch(signed)

\* main.go:185-194: the result of BackendConnect for a cached record without explorer
OnLazyConnect(rec, fe, err) ==
  LET r == [rec EXCEPT !.sessionInfo.FileExplorer = fe]
  IN IF err # NoErr
     THEN Branch([r EXCEPT !.isSigned = FALSE,
                           !.resp = Append(@, IF IsApiPath(rec.path)
                                              THEN ApiErrorResponse(500, err)
                                              ELSE AuthError(err))])
     ELSE Branch(r)

\* a login that caches its record before looking at the connect error
OnLoginConnectCachesFirst(c, rec, username, password, fe, err) ==
  LET info == NewSessionInfo(username, password, fe, username)
  IN IF err # NoErr
     THEN [cache |-> CachePut(c, username, info),
           rec |-> [rec EXCEPT !.pc = "done", !.resp = Append(@, AuthError(err))]]
     ELSE [cache |-> c,
           rec |-> [rec EXCEPT !.pc = "loginPut", !.uid = username, !.sessionInfo = info]]

\* main.go:203-210: the result of BackendConnect for a login attempt
OnLoginConnect(c, rec, username, password, fe, err) ==
  IF err # NoErr
  THEN [cache |-> c,
        rec |-> [rec EXCEPT !.pc = "done", !.resp = Append(@, AuthError(err))]]
  ELSE [cache |-> c,
        rec |-> [rec EXCEPT !.pc = "loginPut", !.uid = username,
                            !.sessionInfo = NewSessionInfo(username, password, fe, username)]]

\* a login that caches its record without the explorer it connected
OnLoginPutWithoutExplorer(c, rec) ==
  CachePut(c, rec.uid, [rec.sessionInfo EXCEPT !.FileExplorer = NilFe])

\* main.go:211: cache.Put(uid, sessionInfo, 100000000000)
OnLoginPut(c, rec) == CachePut(c, rec.uid, rec.sessionInfo)

\* a logout that empties the whole cache
OnLogoutCacheFlushesAll(c, rec) == [k \in {} |-> ZeroSessionInfo]

\* a logout that forgets to delete the cache entry
OnLogoutCacheKeepsEntry(c, rec) == c

\* main.go:225: cache.Delete(uid.(string))
OnLogoutCache(c, rec) == CacheDelete(c, rec.uid)

\* main.go:224: session.Delete("uid")
OnLogoutSession(s, rec) == [s EXCEPT ![rec.client] = NoUid]

\* the route table of startServer (main.go:69-74), after Contexter
ApiRoutes == { <<"POST", "/api/_">>, <<"POST", "/bridges/php/handler.php">> }

DefaultRoutes == { <<"POST", "/api/download">>, <<"POST", "/api/upload">> }

\* mainHandler, loginHandler, defaultHandler or no route
PageHandler(route) ==
  CASE route = <<"GET", "/">> -> HTML("index")
    [] route = <<"GET", "/login">> -> HTML("login")
    [] route \in DefaultRoutes -> DEFAULT_API_ERROR_RESPONSE
    [] OTHER -> NotFound

\* --------------------------------------------------------------- actions
SetReq(w, rec) == req' = [req EXCEPT ![w] = rec]

Start(w) ==
  /\ req[w].pc = "idle"
  /\ \E client \in Clients, line \in RequestLines :
       SetReq(w, OnStart(IdleReq, client, line, sessUid[client]))
  /\ UNCHANGED <<cache, sessUid, conn, feUser, released, closeCalls, fs, last, nops>>

CacheGet(w) ==
  /\ req[w].pc = "cacheGet"
  /\ SetReq(w, OnCacheGet(cache, req[w]))
  /\ UNCHANGED <<cache, sessUid, conn, feUser, released, closeCalls, fs, last, nops>>

\* BackendConnect (main.go:233-241): NewSSHFileExplorer + Init, for the login
\* attempt (main.go:205) or for a cached record without explorer (main.go:185)
BackendConnect(w) ==
  /\ req[w].pc \in {"lazyConnect", "loginConnect"}
  /\ LET lazy == req[w].pc = "lazyConnect"
         unused == { e \in Explorers : conn[e] = "unused" }
     IN \E cred \in (IF lazy THEN {<<req[w].sessionInfo.User, req[w].sessionInfo.Password>>}
                               ELSE Credentials),
           ok \in BOOLEAN :
          /\ ok => unused # {}
          /\ LET username == cred[1]
                 password == cred[2]
                 fe == IF ok THEN CHOOSE e \in unused : \A x \in unused : e <= x
                             ELSE NilFe
                 err == IF ok THEN NoErr ELSE "ssh: unable to authenticate"
                 login == OnLoginConnect(cache, req[w], username, password, fe, err)
             IN /\ conn' = IF ok THEN [conn EXCEPT ![fe] = "open"] ELSE conn
                /\ feUser' = IF ok THEN [feUser EXCEPT ![fe] = username] ELSE feUser
                /\ cache' = IF lazy THEN cache ELSE login.cache
                /\ SetReq(w, IF lazy THEN OnLazyConnect(req[w], fe, err) ELSE login.rec)
  /\ UNCHANGED <<sessUid, released, closeCalls, fs, last, nops>>

LoginPut(w) ==
  /\ req[w].pc = "loginPut"
  /\ cache' = OnLoginPut(cache, req[w])
  /\ SetReq(w, [req[w] EXCEPT !.pc = "loginSet"])
  /\ UNCHANGED <<sessUid, conn, feUser, released, closeCalls, fs, last, nops>>

\* main.go:212-215: session.Set("uid", uid), c.Map, c.Redirect("/")
LoginSetSession(w) ==
  /\ req[w].pc = "loginSet"
  /\ sessUid' = [sessUid EXCEPT ![req[w].client] = req[w].uid]
  /\ SetReq(w, [req[w] EXCEPT !.pc = "done", !.mapped = req[w].sessionInfo,
                              !.resp = Append(@, Redirect("/"))])
  /\ UNCHANGED <<cache, conn, feUser, released, closeCalls, fs, last, nops>>

\* main.go:223: sessionInfo.FileExplorer.Close()
LogoutClose(w) ==
  /\ req[w].pc = "logoutClose"
  /\ LET fe == req[w].sessionInfo.FileExplorer
     IN IF fe = NilFe
        THEN /\ SetReq(w, [req[w] EXCEPT !.pc = "done", !.resp = Append(@, Panic)])
             /\ UNCHANGED <<conn, released, closeCalls>>
        ELSE LET c == Close(conn[fe], released[fe])
             IN /\ conn' = [conn EXCEPT ![fe] = c.st]
                /\ released' = [released EXCEPT ![fe] = c.rel]
                /\ closeCalls' = [closeCalls EXCEPT ![fe] = @ + 1]
                /\ SetReq(w, [req[w] EXCEPT !.pc = "logoutSession"])
  /\ UNCHANGED <<cache, sessUid, feUser, fs, last, nops>>

LogoutSession(w) ==
  /\ req[w].pc = "logoutSession"
  /\ sessUid' = OnLogoutSession(sessUid, req[w])
  /\ SetReq(w, [req[w] EXCEPT !.pc = "logoutCache"])
  /\ UNCHANGED <<cache, conn, feUser, released, closeCalls, fs, last, nops>>

\* main.go:225-227: cache.Delete, c.SetCookie, c.Redirect("/login")
LogoutCache(w) ==
  /\ req[w].pc = "logoutCache"
  /\ cache' = OnLogoutCache(cache, req[w])
  /\ SetReq(w, [req[w] EXCEPT !.pc = "done", !.resp = Append(@, Redirect("/login"))])
  /\ UNCHANGED <<sessUid, conn, feUser, released, closeCalls, fs, last, nops>>

\* the route's handler runs: binding.Bind + apiHandler, or a page handler
Handler(w, bodies) ==
  /\ req[w].pc = "handler"
  /\ LET route == <<req[w].method, req[w].path>>
         fe == req[w].mapped.FileExplorer
         st == IF fe = NilFe THEN "unused" ELSE conn[fe]
     IN IF route \in ApiRoutes
        THEN \E body \in bodies, out \in CapabilityOutcomes(st) :
               LET h == ApiHandler(body, req[w].mapped, out)
               IN SetReq(w, [req[w] EXCEPT !.pc = "done", !.body = body,
                                           !.out = IF h.calls = <<>> THEN IdleReq.out ELSE out,
                                           !.calls = h.calls,
                                           !.resp = @ \o h.resp])
        ELSE SetReq(w, [req[w] EXCEPT !.pc = "done",
                                      !.resp = Append(@, PageHandler(route))])
  /\ UNCHANGED <<cache, sessUid, conn, feUser, released, closeCalls, fs, last, nops>>

\* the response has been sent; the worker is free again
Finish(w) ==
  /\ req[w].pc = "done"
  /\ SetReq(w, IdleReq)
  /\ UNCHANGED <<cache, sessUid, conn, feUser, released, closeCalls, fs, last, nops>>

\* the cache drops an entry whose time-to-live (main.go:211) has passed
Expire(key) ==
  /\ CacheHas(cache, key)
  /\ cache' = CacheDelete(cache, key)
  /\ UNCHANGED <<sessUid, conn, feUser, released, closeCalls, req, fs, last, nops>>

\* the remote end drops the connection of a connected explorer
ConnectionLost(e) ==
  /\ conn[e] = "open"
  /\ conn' = [conn EXCEPT ![e] = "dead"]
  /\ UNCHANGED <<cache, sessUid, feUser, released, closeCalls, req, fs, last, nops>>

Next ==
  \/ \E w \in Workers : Start(w)
  \/ \E w \in Workers : CacheGet(w)
  \/ \E w \in Workers : BackendConnect(w)
  \/ \E w \in Workers : LoginPut(w)
  \/ \E w \in Workers : LoginSetSession(w)
  \/ \E w \in Workers : LogoutClose(w)
  \/ \E w \in Workers : LogoutSession(w)
  \/ \E w \in Workers : LogoutCache(w)
  \/ \E w \in Workers : Handler(w, BinderReqs)
  \/ \E w \in Workers : Finish(w)
  \/ \E key \in Usernames : Expire(key)
  \/ \E e \in Explorers : ConnectionLost(e)

\* the session binder under concurrent requests
Spec == Init /\ [][Next]_vars

\* one request at a time, every body the dispatcher may be handed
NextApi ==
  \/ Start(1)
  \/ CacheGet(1)
  \/ BackendConnect(1)
  \/ LoginPut(1)
  \/ LoginSetSession(1)
  \/ LogoutClose(1)
  \/ LogoutSession(1)
  \/ LogoutCache(1)
  \/ Handler(1, GenericReqs)
  \/ Finish(1)
  \/ \E key \in Usernames : Expire(key)
  \/ \E e \in Explorers : ConnectionLost(e)

SpecApi == Init /\ [][NextApi]_vars

\* ------------------------------------------- LocalFileExplorer: actions
\* the operation r has run on fs with these inputs
Ran(op, items, path, dest, name, code, recursive, r) ==
  /\ nops < MaxOps
  /\ fs' = r.fs
  /\ last' = [op |-> op, items |-> items, path |-> path, dest |-> dest, name |-> name,
              code |-> code, recursive |-> recursive,
              err |-> r.err, errs |-> r.errs, touched |-> r.touched, before |-> fs]
  /\ nops' = nops + 1
  /\ UNCHANGED binderVars

FsMkdir ==
  \E path \in ClientPaths \cup DestPaths :
    Ran("Mkdir", <<>>, path, <<>>, "", <<>>, FALSE, Mkdir(fs, path))

FsListDir ==
  \E path \in ClientPaths \cup {<<>>} :
    Ran("ListDir", <<>>, path, <<>>, "", <<>>, FALSE, ListDir(fs, path).res)

FsRename ==
  \E path \in ClientPaths, newPath \in DestPaths :
    Ran("Rename", <<>>, path, newPath, "", <<>>, FALSE, Rename(fs, path, newPath))

FsMove ==
  \E items \in ItemLists, newPath \in DestPaths :
    Ran("Move", items, <<>>, newPath, "", <<>>, FALSE, Move(fs, items, newPath))

FsCopy ==
  \E items \in ItemLists, newPath \in DestPaths, name \in FileNames :
    Ran("Copy", items, <<>>, newPath, name, <<>>, FALSE, Copy(fs, items, newPath, name))

FsDelete ==
  \E items \in ItemLists :
    Ran("Delete", items, <<>>, <<>>, "", <<>>, FALSE, Delete(fs, items))

FsChmod ==
  \E items \in ItemLists, code \in PermsCodes, recursive \in BOOLEAN :
    Ran("Chmod", items, <<>>, <<>>, "", code, recursive, Chmod(fs, items, code, recursive))

FsUploadFile ==
  \E dest \in DestPaths, name \in FileNames :
    Ran("UploadFile", <<>>, <<>>, dest, name, <<>>, FALSE, UploadFile(fs, dest, name, 5, "U"))

FsGetContent ==
  \E item \in ClientPaths :
    Ran("GetContent", <<>>, item, <<>>, "", <<>>, FALSE, GetContent(fs, item))

FsEdit ==
  \E item \in ClientPaths :
    Ran("Edit", <<>>, item, <<>>, "", <<>>, FALSE, Edit(fs, item, 5, "E"))

NextFs ==
  \/ FsMkdir
  \/ FsListDir
  \/ FsRename
  \/ FsMove
  \/ FsCopy
  \/ FsDelete
  \/ FsChmod
  \/ FsUploadFile
  \/ FsGetContent
  \/ FsEdit

InitFs ==
  /\ InitBinder
  /\ fs \in { InitialFs(locked, size) : locked \in Lockable, size \in Sizes }
  /\ last = NoOp
  /\ nops = 0

\* a LocalFileExplorer at work on a filesystem
SpecFs == InitFs /\ [][NextFs]_vars

\* ================================================================ claims
InFlight(w) == req[w].pc \notin {"idle", "done"}

Quiescent == \A w \in Workers : ~InFlight(w)

LiveExplorers(k) == { e \in Explorers : conn[e] = "open" /\ feUser[e] = k }

\* worker w takes the step from pc value a to pc value b
Steps(w, a, b) == req[w].pc = a /\ req'[w].pc = b

\* C1: once the login requests for a sessionKey have finished, at most one
\* connected, unclosed explorer exists for that key (every other one was
\* rejected or closed): never N live connections.
C1_OneLiveExplorerPerKey ==
  Quiescent => \A k \in Usernames : Cardinality(LiveExplorers(k)) <= 1

\* C2: a logout closes the explorer the request was bound to, deletes the
\* session's uid mapping and the cache entry of its key; a closed explorer stays
\* closed, the entry comes back only by a login's cache.Put, and while it is
\* absent a request presenting the key stays unsigned and makes no capability call.
C2_LogoutStep ==
  /\ \A w \in Workers :
       LET fe == req[w].sessionInfo.FileExplorer
       IN /\ Steps(w, "logoutClose", "logoutSession") => conn'[fe] = "closed"
          /\ Steps(w, "logoutSession", "logoutCache") => sessUid'[req[w].client] = NoUid
          /\ Steps(w, "logoutCache", "done") =>
               /\ ~CacheHas(cache', req[w].uid)
               /\ conn'[fe] = "closed"
               /\ req'[w].resp = <<Redirect("/login")>>
               /\ req'[w].calls = <<>>
          /\ (req[w].pc = "cacheGet" /\ req'[w].pc # "cacheGet"
                /\ ~CacheHas(cache, req[w].uid)) =>
               /\ req'[w].isSigned = FALSE
               /\ req'[w].pc \notin {"logoutClose", "lazyConnect"}
          /\ (Steps(w, "handler", "done") /\ req[w].isSigned = FALSE) =>
               /\ req'[w].calls = <<>>
               /\ req'[w].resp = <<HTML("login")>>
  /\ \A e \in Explorers : conn[e] = "closed" => conn'[e] = "closed"
  /\ \A k \in Usernames :
       (~CacheHas(cache, k) /\ CacheHas(cache', k)) =>
         \E w \in Workers : Steps(w, "loginPut", "loginSet") /\ req[w].uid = k

C2_LogoutInvariant == [][C2_LogoutStep]_vars

\* a logout has completed: explorer closed, entry and uid mapping gone
C2_Witness ==
  \E w \in Workers :
    /\ req[w].pc = "done" /\ req[w].path = "/logout" /\ req[w].isSigned
    /\ req[w].resp = <<Redirect("/login")>>
    /\ conn[req[w].sessionInfo.FileExplorer] = "closed"
    /\ ~CacheHas(cache, req[w].uid)
    /\ sessUid[req[w].client] = NoUid

\* C3: a login attempt whose backend connect fails leaves the cache, the uid
\* mappings and every explorer as they were, creates no Session record, and
\* answers with the redirect to the login page: the caller is not signed in.
C3_FailedLoginStep ==
  \A w \in Workers :
    (Steps(w, "loginConnect", "done")) =>
      /\ UNCHANGED <<cache, sessUid, conn, feUser, released, closeCalls>>
      /\ req'[w].isSigned = FALSE
      /\ req'[w].mapped = ZeroSessionInfo
      /\ Len(req'[w].resp) = 1
      /\ req'[w].resp[1].kind = "Redirect" /\ req'[w].resp[1].to = "/login"
      /\ req'[w].resp[1].flash # ""

C3_FailedLoginAborts == [][C3_FailedLoginStep]_vars

\* a login attempt has failed at the backend connect
C3_Witness ==
  \E w \in Workers :
    /\ req[w].pc = "done" /\ req[w].path = "/login" /\ req[w].method = "POST"
    /\ req[w].resp = <<AuthError("ssh: unable to authenticate")>>

\* C4: a capability call is made only for a signed request whose Session has a
\* non-empty identity and a non-absent, initialised, unclosed explorer.
C4_DispatchStep ==
  \A w \in Workers :
    (Steps(w, "handler", "done") /\ req'[w].calls # <<>>) =>
      LET s == req[w].mapped
      IN /\ req[w].isSigned
         /\ s.User # "" /\ s.Password # ""
         /\ s.FileExplorer # NilFe
         /\ conn[s.FileExplorer] \in {"open", "dead"}

C4_DispatchOnlyLiveExplorer == [][C4_DispatchStep]_vars

\* C5: whenever a cache entry is discarded (deleted, expired or replaced), the
\* explorer it held has been closed by then.
C5_DiscardStep ==
  \A k \in Usernames :
    (/\ CacheHas(cache, k)
     /\ cache[k].FileExplorer # NilFe
     /\ (~CacheHas(cache', k) \/ cache'[k].FileExplorer # cache[k].FileExplorer)) =>
      conn'[cache[k].FileExplorer] = "closed"

C5_ClosedBeforeDiscard == [][C5_DiscardStep]_vars

\* C6: when a capability call of a Bound session finds the backend connection
\* unusable, the request is answered as unauthenticated (redirect to the login
\* page, or the 500 envelope) and the Session record is evicted from the cache.
C6_FailedStep ==
  \A w \in Workers :
    (/\ Steps(w, "handler", "done")
     /\ req'[w].calls # <<>>
     /\ conn[req[w].mapped.FileExplorer] # "open") =>
      /\ ~CacheHas(cache', req[w].uid)
      /\ Len(req'[w].resp) = 1
      /\ (req'[w].resp[1].kind = "Redirect" \/ req'[w].resp[1].code = 500)

C6_FailedEvictsRecord == [][C6_FailedStep]_vars

C8_NotImplementedStep ==
  \A w \in Workers :
    (Steps(w, "handler", "done") /\ req'[w].body.Action \in NotImplementedActions) =>
      /\ Len(req'[w].resp) = 1
      /\ req'[w].resp[1].kind = "GenericResp"
      /\ req'[w].resp[1].code = 200
      /\ req'[w].resp[1].success = FALSE
      /\ req'[w].resp[1].message = "Not Supported"
      /\ req'[w].calls = <<>>
      /\ UNCHANGED <<cache, sessUid, conn, feUser, released, closeCalls>>

C8_NotImplementedEnvelope == [][C8_NotImplementedStep]_vars

\* "compress" has been dispatched
C8_Witness ==
  \E w \in Workers :
    /\ req[w].pc = "done" /\ req[w].body.Action = "compress"
    /\ req[w].resp = <<GenericResp(200, FALSE, "Not Supported")>>

\* a request that went through apiHandler
Dispatched(w) == req[w].pc = "done" /\ req[w].body # NoBody

\* C9: an action string outside the action table is answered with exactly one
\* envelope, the fixed "Not Supported" failure envelope.
C9_UnrecognizedEnvelope ==
  \A w \in Workers :
    (Dispatched(w)
       /\ req[w].body.Action \notin ImplementedActions \cup NotImplementedActions) =>
      /\ Len(req[w].resp) = 1
      /\ req[w].resp[1].kind = "GenericResp"
      /\ req[w].resp[1].success = FALSE
      /\ req[w].resp[1].message = "Not Supported"

\* the capability call of the action table (spec section 6) for a body
TableCall(b) ==
  CASE b.Action = "list" -> Call("ListDir", <<b.Path>>, <<>>, FALSE)
    [] b.Action = "rename" -> Call("Rename", <<b.Item, b.NewItemPath>>, <<>>, FALSE)
    [] b.Action = "move" -> Call("Move", <<b.NewPath>>, b.Items, FALSE)
    [] b.Action = "copy" -> Call("Copy", <<b.NewPath, b.SingleFilename>>, b.Items, FALSE)
    [] b.Action = "remove" -> Call("Delete", <<>>, b.Items, FALSE)
    [] b.Action = "createFolder" -> Call("Mkdir", <<b.NewPath>>, <<>>, FALSE)
    [] b.Action = "changePermissions" -> Call("Chmod", <<b.PermsCode>>, b.Items, b.Recursive)

\* C10: an implemented action makes exactly the capability call of the action
\* table; a successful call is answered with status 200 and {success:true,
\* message:""} (for list, the entries), a failed one with status 400 and
\* {success:false, message: the error's text}.
C10_ImplementedActions ==
  \A w \in Workers :
    (Dispatched(w) /\ req[w].body.Action \in ImplementedActions) =>
      /\ req[w].calls = <<TableCall(req[w].body)>>
      /\ Len(req[w].resp) = 1
      /\ req[w].out.err = NoErr =>
           /\ req[w].resp[1].code = 200
           /\ req[w].resp[1].success = TRUE
           /\ req[w].resp[1].message = ""
           /\ IF req[w].body.Action = "list"
              THEN req[w].resp[1].kind = "ListDirResp"
                   /\ req[w].resp[1].result = req[w].out.ls
              ELSE req[w].resp[1].kind = "GenericResp"
      /\ req[w].out.err # NoErr =>
           /\ req[w].resp[1].kind = "GenericResp"
           /\ req[w].resp[1].code = 400
           /\ req[w].resp[1].success = FALSE
           /\ req[w].resp[1].message = req[w].out.err

\* a copy has been dispatched and its capability call has failed
C10_Witness ==
  \E w \in Workers :
    /\ Dispatched(w) /\ req[w].body.Action = "copy"
    /\ req[w].out.err = "EIO"
    /\ req[w].resp = <<GenericResp(400, FALSE, "EIO")>>
    /\ req[w].calls = <<Call("Copy", <<"/new", "single">>, <<"/dir/a", "/dir/b">>, FALSE)>>

\* worker w takes the step in which its BackendConnect returns an error
ConnectFails(w) ==
  \/ Steps(w, "loginConnect", "done")
  \/ req[w].pc = "lazyConnect" /\ req'[w].pc # "lazyConnect" /\ req'[w].isSigned = FALSE

\* C11: a request whose authentication fails because the backend connect fails
\* gets exactly one response: on an API path the JSON failure envelope with
\* HTTP 500, on a page path the redirect to the login page with the error as
\* flash message.
C11_ConnectFailureStep ==
  \A w \in Workers :
    ConnectFails(w) =>
      /\ Len(req'[w].resp) = 1
      /\ IF IsApiPath(req[w].path)
         THEN /\ req'[w].resp[1].kind = "GenericResp"
              /\ req'[w].resp[1].code = 500
              /\ req'[w].resp[1].success = FALSE
              /\ req'[w].resp[1].message = "ssh: unable to authenticate"
         ELSE /\ req'[w].resp[1].kind = "Redirect"
              /\ req'[w].resp[1].code = 302
              /\ req'[w].resp[1].to = "/login"
              /\ req'[w].resp[1].flash = "ssh: unable to authenticate"

SomeItemFailed == \E i \in 1..Len(last.errs) : last.errs[i] # NoErr

\* C12: a bulk operation (move, copy, delete, non-recursive chmod) reports
\* failure if any item of the sequence failed, whatever its position, and
\* success only if every item succeeded.
C12_BulkReportsAnyFailure ==
  (last.op \in {"Move", "Copy", "Delete"} \/ (last.op = "Chmod" /\ ~last.recursive)) =>
    (SomeItemFailed => last.err # NoErr)

\* the filesystem after op has been applied to every item in order, whatever
\* each application returned
RECURSIVE EachInOrder(_, _, _, _)
EachInOrder(op, f, items, dest) ==
  IF items = <<>> THEN f
  ELSE LET one == IF op = "Delete" THEN OsRemoveAll(f, Clean(Head(items)))
                                   ELSE Rename(f, Head(items), dest)
       IN EachInOrder(op, one.fs, Tail(items), dest)

\* C13: delete and move never stop at a failing item: every item of the
\* sequence is attempted, in order, so an item that can be processed is
\* processed even when an earlier item failed.
C13_BulkAttemptsEveryItem ==
  last.op \in {"Delete", "Move"} =>
    /\ Len(last.errs) = Len(last.items)
    /\ fs = EachInOrder(last.op, last.before, last.items, last.dest)
    /\ last.op = "Delete" =>
         \A i \in 1..Len(last.items) :
           /\ last.touched[i] = Clean(last.items[i])
           /\ last.errs[i] = NoErr => ~Exists(fs, Clean(last.items[i]))
    /\ last.op = "Move" =>
         \A i \in 1..Len(last.items) :
           /\ last.touched[2 * i - 1] = Join(RelativePath, last.items[i])
           /\ last.touched[2 * i] = Join(RelativePath, last.dest)

\* a delete whose first item failed has removed its second item
C13_Witness ==
  /\ last.op = "Delete" /\ Len(last.items) = 2
  /\ last.errs[1] # NoErr /\ last.errs[2] = NoErr
  /\ Exists(last.before, Clean(last.items[2]))
  /\ ~Exists(fs, Clean(last.items[2]))

\* C14: after a successful move(items, destinationDir) every item is inside
\* destinationDir under its own name, with its content, and no longer at its
\* original path; no item overwrites another.
C14_MoveIntoDestination ==
  (last.op = "Move" /\ last.err = NoErr /\ ~SomeItemFailed) =>
    \A i \in 1..Len(last.items) :
      LET item == last.items[i]
          src == Join(RelativePath, item)
          dst == Join3(RelativePath, last.dest, <<item[Len(item)]>>)
      IN /\ Exists(fs, dst)
         /\ Exists(last.before, src) => fs[dst] = last.before[src]
         /\ ~Exists(fs, src)


\* C15: getContent rejects as too large exactly the files of more than
\* 1 MiB (1048576 bytes): 1 MiB + 1 byte is rejected, exactly 1 MiB is not.
C15_SizeGuard ==
  (last.op = "GetContent" /\ Exists(last.before, Join(RelativePath, last.path))) =>
    LET size == last.before[Join(RelativePath, last.path)].size
    IN /\ size > 1048576 => last.err = "file too big, not support getContent"
       /\ size <= 1048576 => last.err = NoErr
       /\ fs = last.before

\* getContent has accepted a file of exactly 1 MiB
C15_Witness ==
  /\ last.op = "GetContent" /\ last.err = NoErr
  /\ Exists(last.before, Join(RelativePath, last.path))
  /\ last.before[Join(RelativePath, last.path)].size = 1048576

\* code is not the decimal writing of an integer
Unparsable(code) ==
  LET digits == IF code # <<>> /\ Head(code) \in {"+", "-"} THEN Tail(code) ELSE code
  IN digits = <<>> \/ \E i \in 1..Len(digits) : ~IsDigit(digits[i])

\* C16: chmod fails closed: with a modeCode that does not parse as an integer
\* it returns an error and changes no mode, of no item and no descendant,
\* whether recursive is true or false.
C16_ChmodFailsClosed ==
  (last.op = "Chmod" /\ Unparsable(last.code)) =>
    /\ last.err # NoErr
    /\ last.touched = <<>>
    /\ fs = last.before

\* a recursive chmod of existing items with an unparsable modeCode has returned
C16_Witness ==
  /\ last.op = "Chmod" /\ last.recursive /\ last.code = <<"7", "x">>
  /\ last.items = << <<"d">>, <<"a">> >>
  /\ last.err = "strconv.Atoi: invalid syntax"
  /\ fs = last.before

\* C17: recursive chmod never swallows an error: when applying the mode fails
\* for an item or a descendant, or the walk of an item's subtree fails, chmod
\* returns an error.
C17_RecursiveChmodReportsFailure ==
  (last.op = "Chmod" /\ last.recursive /\ SomeItemFailed) => last.err # NoErr

\* the paths the inputs of the last operation address: each one joined to
\* the explorer's RelativePath
JoinedInputs ==
  { Join(RelativePath, last.items[i]) : i \in 1..Len(last.items) }
    \cup (IF last.op \in {"Mkdir", "ListDir", "Rename", "GetContent", "Edit"}
          THEN {Join(RelativePath, last.path)} ELSE {})
    \cup (IF last.op \in {"Rename", "Move"} THEN {Join(RelativePath, last.dest)} ELSE {})
    \cup (IF last.op \in {"Copy", "UploadFile"}
          THEN {Join3(RelativePath, last.dest, <<last.name>>)} ELSE {})

\* C20: every operation that takes a path acts only on the path obtained by
\* joining RelativePath with it (for a recursive one, on that path's subtree):
\* no entry addressed outside that join is read or modified.
C20_ActsOnlyOnJoinedPath ==
  last.op # "none" =>
    /\ \A i \in 1..Len(last.touched) :
         \E p \in JoinedInputs : IsPrefix(p, last.touched[i])
    /\ \A q \in DOMAIN fs \cup DOMAIN last.before :
         (q \notin DOMAIN fs \/ q \notin DOMAIN last.before \/ fs[q] # last.before[q]) =>
           \E p \in JoinedInputs : IsPrefix(p, q)


\* C18: every Session record in the cache was put there by a login whose
\* backend connect succeeded: it holds a non-absent explorer, one that was
\* connected for the record's username, and is stored under the key equal to
\* that username; so no request ever enters the reconnect branch for a cached
\* record without explorer.
C18_CachedRecordsComeFromLogin ==
  /\ \A k \in DOMAIN cache :
       /\ cache[k].FileExplorer # NilFe
       /\ conn[cache[k].FileExplorer] # "unused"
       /\ feUser[cache[k].FileExplorer] = cache[k].User
       /\ cache[k].User = k
       /\ cache[k].Uid = k
  /\ \A w \in Workers : req[w].pc # "lazyConnect"

\* a request has found its cached record, with identity and explorer, and has
\* gone on to its handler without reconnecting
C18_Witness ==
  \E w \in Workers :
    /\ req[w].pc = "handler" /\ req[w].isSigned
    /\ CacheHas(cache, req[w].uid)
    /\ req[w].sessionInfo = cache[req[w].uid]
    /\ req[w].sessionInfo.FileExplorer # NilFe

\* C19: a step of a request presenting sessionKey k (the uid of its session,
\* or the username of its login) leaves the cache entry of every other key as
\* it is and closes no explorer connected for another key; only a login's
\* cache.Put and a logout's cache.Delete change the cache at all.
C19_FrameStep ==
  \A w \in Workers :
    req'[w] # req[w] =>
      LET k == req[w].uid
      IN /\ \A other \in Usernames \ {k} :
              /\ CacheHas(cache', other) <=> CacheHas(cache, other)
              /\ CacheHas(cache, other) => cache'[other] = cache[other]
         /\ \A e \in Explorers :
              (conn[e] # "closed" /\ conn'[e] = "closed") => feUser[e] = k
         /\ (~Steps(w, "loginPut", "loginSet") /\ ~Steps(w, "logoutCache", "done")) =>
              cache' = cache

C19_Frame == [][C19_FrameStep]_vars

\* alice's logout has completed while bob's record and explorer are untouched
C19_Witness ==
  \E w \in Workers :
    /\ req[w].pc = "done" /\ req[w].path = "/logout" /\ req[w].isSigned
    /\ req[w].uid = "alice"
    /\ conn[req[w].sessionInfo.FileExplorer] = "closed"
    /\ ~CacheHas(cache, "alice")
    /\ CacheHas(cache, "bob")
    /\ conn[cache["bob"].FileExplorer] = "open"

====
